---- MODULE Spec2Model ----
(***************************************************************************)
(* Model of the exam-assembly endpoint GET /exams/assembled of server.js:  *)
(* buildBlocksForExam, the per-exam target, pickBlocks, the global shuffle *)
(* and trim, and the response.                                             *)
(*                                                                         *)
(* An optional JavaScript value is a sequence of length <= 1: <<>> is a    *)
(* missing (undefined / NaN) value, <<v>> is the value v.  A setId of ""   *)
(* is the falsy setId of an ungrouped question.                            *)
(***************************************************************************)
EXTENDS Integers, Sequences, FiniteSets, TLC

\* ------------------------------------------------------------------ bounds
MaxExams == 2
MaxQuestions == 3
\* pickBlocks on its own: the blocks of one exam and its target
MaxBlocks == 3
MaxBlockLen == 5
MaxTarget == 4
\* the per-exam target on its own
MaxBase == 25
MaxPercentage == 100
\* the trim loop on its own: the shuffled pool and max
MaxPoolBlocks == 3
MaxPoolBlockLen == 3
MaxCap == 3
\* buildBlocksForExam on its own: the questions of one exam
MaxBuildQuestions == 5
\* the question routes: the longest options array of a request body
MaxOptions == 3
\* the note routes: the number of notes ever uploaded
MaxNotes == 1
\* assembly over questions with images
MaxImageQuestions == 2
MaxServed == 1
\* the validation request routes: user documents, request ids ever handed out
MaxUsers == 1
MaxRequests == 2

\* Values the stored data and the query string are drawn from.
Percentages == {<<>>, <<0>>, <<2>>}
QueryBases == {<<0>>, <<125>>}
QueryMaxes == {<<>>, <<-1>>, <<1>>, <<2>>}
BuildQuestions ==
  { [setId |-> "", setOrder |-> <<>>] } \cup
  [ setId : {"a", "b"}, setOrder : {<<>>, <<-1>>, <<1>>} ]
StoredQuestions ==
  { [setId |-> "", setOrder |-> <<>>],
    [setId |-> "a", setOrder |-> <<>>],
    [setId |-> "a", setOrder |-> <<1>>] }

\* ------------------------------------------------------- program constants
DefaultBase == 25
DefaultMax == 100

VARIABLES
  db,             \* Firestore: the exams collection with its questions
  pc,             \* position of the request handler
  query,          \* req.query: [base, max]
  base,           \* effective base
  max,            \* effective max
  exams,          \* result of getAllExamsWithQuestions
  picks,          \* per exam: blocks, targetCount, chosenBlocks
  allBlocks,      \* merged pool after the global shuffle
  finalQuestions, \* the trimmed flat list
  used,           \* the trim loop's counter
  trimFallback,   \* the trim loop took its "else if (used === 0)" branch
  response,       \* what res.json / res.status(500).json sent
  fetchError,     \* which read of the fetch failed: "none", "exams", "questions"
  \* one call of pickBlocks(blocks, target)
  pkBlocks, pkTarget, pkPool, pkPicked, pkFallback, pkDone,
  \* one evaluation of targetCount for (base, questionPercentage)
  tcBase, tcPercentage, tcTarget,
  \* one run of the trim loop over allBlocks with max
  trPool, trMax, trFinal, trUsed, trFallback, trDone,
  \* one call of buildBlocksForExam(exam)
  bbExam, bbBlocks, bbDone,
  \* the question routes on one question document
  questionDoc,    \* <<>> or <<[options (its length), correctAnswer]>>
  putPc,          \* per PUT handler: "idle", "updating", "done"
  putUpdates,     \* per PUT handler: the `updates` object it built
  putStatus,      \* per PUT handler: the status it answered, 0 for none yet
  \* the note routes
  notes,          \* notesCol: per id <<>> or <<[isPublic]>>
  noteCount,      \* the number of ids notesCol.doc() has handed out
  publicNotes,    \* publicNotesCol: the ids that have a mirror document
  patchPc,        \* per PATCH handler: "idle", "committing", "done"
  patchReq,       \* per PATCH handler: req.params.id, req.body.isPublic
  patchPrev,      \* per PATCH handler: snap.data()
  deletePc,       \* the DELETE handler: "idle", "committing", "done"
  deleteId,       \* the DELETE handler: req.params.id
  \* GET /exams/assembled served to several clients, questions with images
  asmPc,          \* per handler: "idle", "fetching", "responded", "caught"
  asmQuery,       \* per handler: req.query [base, max, absoluteImages]
  asmExams,       \* per handler: the objects its fetch materialized
  asmResponse,    \* per handler: what it sent
  asmServed,      \* the number of requests answered so far
  \* the validation request routes
  users,          \* usersCol: per uid <<>> or <<[request_sent, is_validated]>>
  requests,       \* requestsCol: per id <<>> or <<[uid]>>
  requestCount,   \* the number of ids requestsCol.doc() has handed out
  submitPc,       \* per POST handler: "idle", "committing", "done"
  submitUid,      \* per POST handler: req.body.uid
  submitStatus,   \* per POST handler: the status it answered, 0 for none yet
  decidePc,       \* the approve / reject handler: "idle", "committing", "done"
  decideReq,      \* the approve / reject handler: route, req.params.id, uid read
  decideStatus    \* the approve / reject handler: the status it answered

handler == <<db, pc, query, base, max, exams, picks, allBlocks, finalQuestions,
             used, trimFallback, response, fetchError>>
pickCall == <<pkBlocks, pkTarget, pkPool, pkPicked, pkFallback, pkDone>>
targetCall == <<tcBase, tcPercentage, tcTarget>>
trimCall == <<trPool, trMax, trFinal, trUsed, trFallback, trDone>>
buildCall == <<bbExam, bbBlocks, bbDone>>
questionRoutes == <<questionDoc, putPc, putUpdates, putStatus>>
noteRoutes == <<notes, noteCount, publicNotes, patchPc, patchReq, patchPrev, deletePc, deleteId>>
assemblies == <<asmPc, asmQuery, asmExams, asmResponse, asmServed>>
requestRoutes == <<users, requests, requestCount, submitPc, submitUid, submitStatus,
                   decidePc, decideReq, decideStatus>>
vars == <<handler, pickCall, targetCall, trimCall, buildCall, questionRoutes, noteRoutes,
          assemblies, requestRoutes>>

\* ------------------------------------------------------------ sequences
SeqsUpTo(S, n) == UNION { [1..k -> S] : k \in 0..n }

RECURSIVE SumSeq(_)
SumSeq(s) == IF s = <<>> THEN 0 ELSE s[1] + SumSeq(Tail(s))

RECURSIVE Concat(_)
Concat(ss) == IF ss = <<>> THEN <<>> ELSE ss[1] \o Concat(Tail(ss))

Range(s) == { s[i] : i \in DOMAIN s }

\* Array.prototype.sort is stable: the indices of keys in ascending key
\* order, equal keys in their original order.
RECURSIVE SortedIndices(_)
SortedIndices(keys) ==
  IF keys = <<>> THEN <<>>
  ELSE LET n == Len(keys)
           prev == SortedIndices(SubSeq(keys, 1, n - 1))
           k == Cardinality({ i \in 1..(n - 1) : keys[prev[i]] <= keys[n] })
       IN SubSeq(prev, 1, k) \o <<n>> \o SubSeq(prev, k + 1, n - 1)

StableSort(s, keys) == [ i \in 1..Len(s) |-> s[SortedIndices(keys)[i]] ]

\* shuffle: a sort with a random comparator returns some permutation.
IndexPerms(n) == { p \in [1..n -> 1..n] : \A i, j \in 1..n : p[i] = p[j] => i = j }
shuffle(arr) == { [ i \in 1..Len(arr) |-> arr[p[i]] ] : p \in IndexPerms(Len(arr)) }

\* ------------------------------------------------------------ the handler
\* variant: the test ">= 0" in place of "> 0"
PositiveOrNonNegative(q, dflt) == IF Len(q) = 1 /\ q[1] >= 0 THEN q[1] ELSE dflt

\* Number(req.query.x) > 0 ? Number(req.query.x) : dflt
PositiveOr(q, dflt) == IF Len(q) = 1 /\ q[1] > 0 THEN q[1] ELSE dflt

\* variant: a missing percentage counts as 100
OrHundred(v) == IF Len(v) = 1 THEN v[1] ELSE 100

\* exam.questionPercentage || 0
OrZero(v) == IF Len(v) = 1 THEN v[1] ELSE 0

\* variant: Math.floor in place of Math.round
FloorDiv100(x) == x \div 100

\* Math.round(x / 100) for an integer x: nearest integer, ties towards +infinity
RoundDiv100(x) == (x + 50) \div 100

targetCount(b, exam) == RoundDiv100(b * OrZero(exam.questionPercentage))

\* variant: a missing setOrder sorts last
OrderKeyMissingLast(q) == IF Len(q.setOrder) = 1 THEN q.setOrder[1] ELSE 1000000

\* Number.isFinite(q.setOrder) ? q.setOrder : 0
OrderKey(q) == IF Len(q.setOrder) = 1 THEN q.setOrder[1] ELSE 0

\* the keys of the Map `groups`, in insertion order
RECURSIVE GroupKeys(_)
GroupKeys(qs) ==
  IF qs = <<>> THEN <<>>
  ELSE LET prev == GroupKeys(SubSeq(qs, 1, Len(qs) - 1))
           q == qs[Len(qs)]
       IN IF q.setId = "" \/ q.setId \in Range(prev) THEN prev
          ELSE Append(prev, q.setId)

buildBlocksForExam(exam) ==
  LET qs == exam.questions
      keys == GroupKeys(qs)
      arr(k) == SelectSeq(qs, LAMBDA q : q.setId = k)
      sorted(k) == StableSort(arr(k), [ i \in 1..Len(arr(k)) |-> OrderKey(arr(k)[i]) ])
      groups == [ i \in 1..Len(keys) |-> sorted(keys[i]) ]
      ungrouped == SelectSeq(qs, LAMBDA q : q.setId = "")
      singles == [ i \in 1..Len(ungrouped) |-> <<ungrouped[i]>> ]
  IN groups \o singles

\* variant: the walk stops at the first block that does not fit
RECURSIVE PickWalkStop(_, _, _, _)
PickWalkStop(pool, target, picked, count) ==
  IF pool = <<>> THEN picked
  ELSE IF count + Len(pool[1]) <= target
       THEN PickWalkStop(Tail(pool), target, Append(picked, pool[1]), count + Len(pool[1]))
       ELSE picked

\* variant: "<" in place of "<="
RECURSIVE PickWalkStrict(_, _, _, _)
PickWalkStrict(pool, target, picked, count) ==
  IF pool = <<>> THEN picked
  ELSE IF count + Len(pool[1]) < target
       THEN PickWalkStrict(Tail(pool), target, Append(picked, pool[1]), count + Len(pool[1]))
       ELSE PickWalkStrict(Tail(pool), target, picked, count)

\* the greedy walk of pickBlocks over the shuffled pool
RECURSIVE PickWalk(_, _, _, _)
PickWalk(pool, target, picked, count) ==
  IF pool = <<>> THEN picked
  ELSE IF count + Len(pool[1]) <= target
       THEN PickWalk(Tail(pool), target, Append(picked, pool[1]), count + Len(pool[1]))
       ELSE PickWalk(Tail(pool), target, picked, count)

Lengths(blocks) == [ i \in 1..Len(blocks) |-> Len(blocks[i]) ]

PickFallback(pool, target) ==
  PickWalk(pool, target, <<>>, 0) = <<>> /\ Len(pool) > 0 /\ target > 0

\* variant: the fallback takes the first block of the pool, not the smallest
pickBlocksFirst(pool, target) ==
  IF target <= 0 THEN <<>>
  ELSE IF PickFallback(pool, target) THEN << pool[1] >>
       ELSE PickWalk(pool, target, <<>>, 0)

\* variant: no fallback
pickBlocksNoFallback(pool, target) ==
  IF target <= 0 THEN <<>> ELSE PickWalk(pool, target, <<>>, 0)

\* variant: neither the early return nor the fallback tests target > 0
pickBlocksNoGuard(pool, target) ==
  IF PickWalk(pool, target, <<>>, 0) = <<>> /\ Len(pool) > 0
  THEN << StableSort(pool, Lengths(pool))[1] >>
  ELSE PickWalk(pool, target, <<>>, 0)

\* variant: the fallback does not test picked.length === 0
pickBlocksAlsoSmallest(pool, target) ==
  IF target <= 0 THEN <<>>
  ELSE IF Len(pool) > 0
       THEN Append(PickWalk(pool, target, <<>>, 0), StableSort(pool, Lengths(pool))[1])
       ELSE PickWalk(pool, target, <<>>, 0)

\* pickBlocks on the outcome `pool` of its shuffle
pickBlocks(pool, target) ==
  IF target <= 0 THEN <<>>
  ELSE IF PickFallback(pool, target)
       THEN << StableSort(pool, Lengths(pool))[1] >>
       ELSE PickWalk(pool, target, <<>>, 0)

\* variant: a block that overflows is cut to the room that is left
RECURSIVE TrimWalkSplit(_, _, _, _)
TrimWalkSplit(pool, m, final, u) ==
  IF pool = <<>> THEN [finalQuestions |-> final, used |-> u, fallback |-> FALSE]
  ELSE IF u + Len(pool[1]) <= m
       THEN TrimWalkSplit(Tail(pool), m, final \o pool[1], u + Len(pool[1]))
       ELSE IF u = 0
            THEN [finalQuestions |-> final \o pool[1], used |-> u, fallback |-> TRUE]
            ELSE TrimWalkSplit(Tail(pool), m, final \o SubSeq(pool[1], 1, m - u), m)

\* variant: the loop stops at the first block that does not fit
RECURSIVE TrimWalkStop(_, _, _, _)
TrimWalkStop(pool, m, final, u) ==
  IF pool = <<>> THEN [finalQuestions |-> final, used |-> u, fallback |-> FALSE]
  ELSE IF u + Len(pool[1]) <= m
       THEN TrimWalkStop(Tail(pool), m, final \o pool[1], u + Len(pool[1]))
       ELSE IF u = 0
            THEN [finalQuestions |-> final \o pool[1], used |-> u, fallback |-> TRUE]
            ELSE [finalQuestions |-> final, used |-> u, fallback |-> FALSE]

\* variant: no break after the oversized block is accepted
RECURSIVE TrimWalkNoBreakFrom(_, _, _, _, _)
TrimWalkNoBreakFrom(pool, m, final, u, fb) ==
  IF pool = <<>> THEN [finalQuestions |-> final, used |-> u, fallback |-> fb]
  ELSE IF u + Len(pool[1]) <= m
       THEN TrimWalkNoBreakFrom(Tail(pool), m, final \o pool[1], u + Len(pool[1]), fb)
       ELSE IF u = 0
            THEN TrimWalkNoBreakFrom(Tail(pool), m, final \o pool[1], u, TRUE)
            ELSE TrimWalkNoBreakFrom(Tail(pool), m, final, u, fb)

TrimWalkNoBreak(pool, m, final, u) == TrimWalkNoBreakFrom(pool, m, final, u, FALSE)

\* the trim loop over the shuffled merged pool
RECURSIVE TrimWalk(_, _, _, _)
TrimWalk(pool, m, final, u) ==
  IF pool = <<>> THEN [finalQuestions |-> final, used |-> u, fallback |-> FALSE]
  ELSE IF u + Len(pool[1]) <= m
       THEN TrimWalk(Tail(pool), m, final \o pool[1], u + Len(pool[1]))
       ELSE IF u = 0
            THEN [finalQuestions |-> final \o pool[1], used |-> u, fallback |-> TRUE]
            ELSE TrimWalk(Tail(pool), m, final, u)

\* variant: the loop counter is reported
ResponseCountUsed(final, u) == u

\* the count the response reports
ResponseCount(final, u) == Len(final)

\* the exams with their questions, as read from the store d:
\* { id: d.id, ...d.data() } and { id: q.id, ...q.data() }
ExamsWithQuestions(d) ==
  [ e \in 1..Len(d) |->
      [ id |-> e,
        questionPercentage |-> d[e].questionPercentage,
        questions |-> [ j \in 1..Len(d[e].questions) |->
                          d[e].questions[j] @@ [id |-> <<e, j>>] ] ] ]

\* getAllExamsWithQuestions when every read succeeds
getAllExamsWithQuestions == ExamsWithQuestions(db)

\* the reads of one fetch that fail: examsCol.get(), or the questions of
\* some exams
FetchFailures(d) ==
  [ list : BOOLEAN, questions : SUBSET (1..Len(d)) ]

FetchErrorOf(f) ==
  IF f.list THEN "exams" ELSE IF f.questions # {} THEN "questions" ELSE "none"

\* variant: a failed read of one exam's questions is swallowed
FetchRejectsListOnly(f) == f.list

\* await examsCol.get() throws, or Promise.all rejects as soon as one of its
\* promises rejects
FetchRejects(f) == f.list \/ f.questions # {}

\* what the handler goes on with when the fetch did not reject
FetchedExams(f) ==
  SelectSeq(getAllExamsWithQuestions, LAMBDA e : e.id \notin f.questions)

\* the outcomes of the loop "for (const exam of exams)": one record per exam
RECURSIVE PickOutcomes(_, _)
PickOutcomes(es, b) ==
  IF es = <<>> THEN { <<>> }
  ELSE LET exam == es[Len(es)]
           blocks == buildBlocksForExam(exam)
           target == targetCount(b, exam)
       IN { Append(prev, [ blocks |-> blocks, targetCount |-> target,
                           chosenBlocks |-> pickBlocks(pool, target),
                           fallback |-> target > 0 /\ PickFallback(pool, target) ]) :
              prev \in PickOutcomes(SubSeq(es, 1, Len(es) - 1), b),
              pool \in shuffle(blocks) }

NoResponse == [status |-> 0]
NoQuery == [base |-> <<>>, max |-> <<>>, absoluteImages |-> <<>>]

\* the stored exams: at most MaxExams exams holding MaxQuestions questions in all
ExamSizes ==
  { sizes \in SeqsUpTo(0..MaxQuestions, MaxExams) : SumSeq(sizes) <= MaxQuestions }

StoredExams(n) == [questionPercentage : Percentages, questions : [1..n -> StoredQuestions]]

RECURSIVE ExamLists(_)
ExamLists(sizes) ==
  IF sizes = <<>> THEN { <<>> }
  ELSE { <<e>> \o rest : e \in StoredExams(sizes[1]), rest \in ExamLists(Tail(sizes)) }

HandlerIdle ==
  /\ pc = "idle"
  /\ query = [base |-> <<>>, max |-> <<>>]
  /\ base = 0
  /\ max = 0
  /\ exams = <<>>
  /\ picks = <<>>
  /\ allBlocks = <<>>
  /\ finalQuestions = <<>>
  /\ used = 0
  /\ trimFallback = FALSE
  /\ response = NoResponse
  /\ fetchError = "none"

PickCallIdle ==
  /\ pkBlocks = <<>>
  /\ pkTarget = 0
  /\ pkPool = <<>>
  /\ pkPicked = <<>>
  /\ pkFallback = FALSE
  /\ pkDone = FALSE

TargetCallIdle ==
  /\ tcBase = DefaultBase
  /\ tcPercentage = <<>>
  /\ tcTarget = <<>>

TrimCallIdle ==
  /\ trPool = <<>>
  /\ trMax = DefaultMax
  /\ trFinal = <<>>
  /\ trUsed = 0
  /\ trFallback = FALSE
  /\ trDone = FALSE

BuildCallIdle ==
  /\ bbExam = [questions |-> <<>>]
  /\ bbBlocks = <<>>
  /\ bbDone = FALSE

PutHandlers == {1, 2}

NoUpdates == [options |-> <<>>, correctAnswer |-> <<>>]

QuestionRoutesIdle ==
  /\ questionDoc = <<>>
  /\ putPc = [h \in PutHandlers |-> "idle"]
  /\ putUpdates = [h \in PutHandlers |-> NoUpdates]
  /\ putStatus = [h \in PutHandlers |-> 0]

PatchHandlers == {1, 2}
NoteIds == 1..MaxNotes

NoPatch == [id |-> 0, isPublic |-> <<>>]
NoPrev == [isPublic |-> FALSE]

NoteRoutesIdle ==
  /\ notes = [n \in NoteIds |-> <<>>]
  /\ noteCount = 0
  /\ publicNotes = {}
  /\ patchPc = [h \in PatchHandlers |-> "idle"]
  /\ patchReq = [h \in PatchHandlers |-> NoPatch]
  /\ patchPrev = [h \in PatchHandlers |-> NoPrev]
  /\ deletePc = "idle"
  /\ deleteId = 0

AssemblyHandlers == {1, 2}

AssembliesIdle ==
  /\ asmPc = [h \in AssemblyHandlers |-> "idle"]
  /\ asmQuery = [h \in AssemblyHandlers |-> NoQuery]
  /\ asmExams = [h \in AssemblyHandlers |-> <<>>]
  /\ asmResponse = [h \in AssemblyHandlers |-> NoResponse]
  /\ asmServed = 0

SubmitHandlers == {1, 2}
UserIds == 1..MaxUsers
RequestIds == 1..MaxRequests

NoDecision == [route |-> "", id |-> 0, uid |-> 0]

RequestRoutesIdle ==
  /\ users = [u \in UserIds |-> <<>>]
  /\ requests = [r \in RequestIds |-> <<>>]
  /\ requestCount = 0
  /\ submitPc = [h \in SubmitHandlers |-> "idle"]
  /\ submitUid = [h \in SubmitHandlers |-> 0]
  /\ submitStatus = [h \in SubmitHandlers |-> 0]
  /\ decidePc = "idle"
  /\ decideReq = NoDecision
  /\ decideStatus = 0

Init ==
  /\ \E sizes \in ExamSizes : db \in ExamLists(sizes)
  /\ HandlerIdle
  /\ PickCallIdle
  /\ TargetCallIdle
  /\ TrimCallIdle
  /\ BuildCallIdle
  /\ QuestionRoutesIdle
  /\ NoteRoutesIdle
  /\ AssembliesIdle
  /\ RequestRoutesIdle

\* the request arrives: base and max are read, the fetch is started
Request ==
  /\ pc = "idle"
  /\ \E qb \in QueryBases, qm \in QueryMaxes :
       /\ query' = [base |-> qb, max |-> qm]
       /\ base' = PositiveOr(qb, DefaultBase)
       /\ max' = PositiveOr(qm, DefaultMax)
  /\ pc' = "fetching"
  /\ UNCHANGED <<db, exams, picks, allBlocks, finalQuestions, used, trimFallback,
                 response, fetchError>>
  /\ UNCHANGED <<pickCall, targetCall, trimCall, buildCall, questionRoutes, noteRoutes,
                 assemblies,
                 requestRoutes>>

\* the fetch resolves: the rest of the handler runs to completion
Assemble ==
  /\ pc = "fetching"
  /\ \E f \in FetchFailures(db) :
       /\ ~FetchRejects(f)
       /\ fetchError' = FetchErrorOf(f)
       /\ exams' = FetchedExams(f)
  /\ \E ps \in PickOutcomes(exams', base) :
       /\ picks' = ps
       /\ \E pool \in shuffle(Concat([ i \in 1..Len(ps) |-> ps[i].chosenBlocks ])) :
            LET t == TrimWalk(pool, max, <<>>, 0) IN
            /\ allBlocks' = pool
            /\ finalQuestions' = t.finalQuestions
            /\ used' = t.used
            /\ trimFallback' = t.fallback
            /\ response' = [ status |-> 200, base |-> base, max |-> max,
                             count |-> ResponseCount(t.finalQuestions, t.used),
                             questions |-> t.finalQuestions ]
  /\ pc' = "responded"
  /\ UNCHANGED <<db, query, base, max>>
  /\ UNCHANGED <<pickCall, targetCall, trimCall, buildCall, questionRoutes, noteRoutes,
                 assemblies,
                 requestRoutes>>

\* the fetch rejects: the catch block answers 500
FetchFail ==
  /\ pc = "fetching"
  /\ fetchError' \in { FetchErrorOf(f) : f \in { g \in FetchFailures(db) : FetchRejects(g) } }
  /\ response' = [status |-> 500, message |-> "Server error assembling exam"]
  /\ pc' = "caught"
  /\ UNCHANGED <<db, query, base, max, exams, picks, allBlocks, finalQuestions,
                 used, trimFallback>>
  /\ UNCHANGED <<pickCall, targetCall, trimCall, buildCall, questionRoutes, noteRoutes,
                 assemblies,
                 requestRoutes>>

Next == Request \/ Assemble \/ FetchFail

Spec == Init /\ [][Next]_vars

\* ------------------------------------------------- pickBlocks on its own
\* block i of the given sizes holds the questions <<i, 1>> .. <<i, sizes[i]>>
BlocksOfSizes(sizes) ==
  [ i \in 1..Len(sizes) |-> [ j \in 1..sizes[i] |-> [id |-> <<i, j>>] ] ]

InitPick ==
  /\ db = <<>>
  /\ HandlerIdle
  /\ TargetCallIdle
  /\ TrimCallIdle
  /\ BuildCallIdle
  /\ QuestionRoutesIdle
  /\ NoteRoutesIdle
  /\ AssembliesIdle
  /\ RequestRoutesIdle
  /\ pkPool = <<>>
  /\ \E sizes \in SeqsUpTo(1..MaxBlockLen, MaxBlocks) : pkBlocks = BlocksOfSizes(sizes)
  /\ pkTarget \in 0..MaxTarget
  /\ pkPicked = <<>>
  /\ pkFallback = FALSE
  /\ pkDone = FALSE

CallPickBlocks ==
  /\ ~pkDone
  /\ \E pool \in shuffle(pkBlocks) :
       /\ pkPool' = pool
       /\ pkPicked' = pickBlocks(pool, pkTarget)
       /\ pkFallback' = (pkTarget > 0 /\ PickFallback(pool, pkTarget))
  /\ pkDone' = TRUE
  /\ UNCHANGED <<pkBlocks, pkTarget, handler, targetCall, trimCall, buildCall, questionRoutes, noteRoutes,
                 assemblies,
                 requestRoutes>>

NextPick == CallPickBlocks

SpecPick == InitPick /\ [][NextPick]_vars

\* ------------------------------------------------ targetCount on its own
InitTarget ==
  /\ db = <<>>
  /\ HandlerIdle
  /\ PickCallIdle
  /\ TrimCallIdle
  /\ BuildCallIdle
  /\ QuestionRoutesIdle
  /\ NoteRoutesIdle
  /\ AssembliesIdle
  /\ RequestRoutesIdle
  /\ tcBase \in 1..MaxBase
  /\ tcPercentage \in {<<>>} \cup { <<w>> : w \in 0..MaxPercentage }
  /\ tcTarget = <<>>

CallTargetCount ==
  /\ tcTarget = <<>>
  /\ tcTarget' = << targetCount(tcBase, [questionPercentage |-> tcPercentage]) >>
  /\ UNCHANGED <<tcBase, tcPercentage, handler, pickCall, trimCall, buildCall, questionRoutes, noteRoutes,
                 assemblies,
                 requestRoutes>>

NextTarget == CallTargetCount

SpecTarget == InitTarget /\ [][NextTarget]_vars

\* ----------------------------------------------- the trim loop on its own
InitTrim ==
  /\ db = <<>>
  /\ HandlerIdle
  /\ PickCallIdle
  /\ TargetCallIdle
  /\ BuildCallIdle
  /\ QuestionRoutesIdle
  /\ NoteRoutesIdle
  /\ AssembliesIdle
  /\ RequestRoutesIdle
  /\ \E sizes \in SeqsUpTo(1..MaxPoolBlockLen, MaxPoolBlocks) : trPool = BlocksOfSizes(sizes)
  /\ trMax \in 1..MaxCap
  /\ trFinal = <<>>
  /\ trUsed = 0
  /\ trFallback = FALSE
  /\ trDone = FALSE

RunTrim ==
  /\ ~trDone
  /\ LET t == TrimWalk(trPool, trMax, <<>>, 0) IN
       /\ trFinal' = t.finalQuestions
       /\ trUsed' = t.used
       /\ trFallback' = t.fallback
  /\ trDone' = TRUE
  /\ UNCHANGED <<trPool, trMax, handler, pickCall, targetCall, buildCall, questionRoutes, noteRoutes,
                 assemblies,
                 requestRoutes>>

NextTrim == RunTrim

SpecTrim == InitTrim /\ [][NextTrim]_vars

\* ---------------------------------------- buildBlocksForExam on its own
InitBuild ==
  /\ db = <<>>
  /\ HandlerIdle
  /\ PickCallIdle
  /\ TargetCallIdle
  /\ TrimCallIdle
  /\ QuestionRoutesIdle
  /\ NoteRoutesIdle
  /\ AssembliesIdle
  /\ RequestRoutesIdle
  /\ \E qs \in SeqsUpTo(BuildQuestions, MaxBuildQuestions) :
       bbExam = [questions |-> [ j \in 1..Len(qs) |-> qs[j] @@ [id |-> <<1, j>>] ]]
  /\ bbBlocks = <<>>
  /\ bbDone = FALSE

CallBuildBlocks ==
  /\ ~bbDone
  /\ bbBlocks' = buildBlocksForExam(bbExam)
  /\ bbDone' = TRUE
  /\ UNCHANGED <<bbExam, handler, pickCall, targetCall, trimCall, questionRoutes, noteRoutes,
                 assemblies,
                 requestRoutes>>

NextBuild == CallBuildBlocks

SpecBuild == InitBuild /\ [][NextBuild]_vars

\* ---------------------------------------------------- the question routes
\* req.body.options: undefined, an array of some length, or anything else
\* (on the multipart routes also a string that is no JSON)
OptionsBodies ==
  { [type |-> "undefined", length |-> 0], [type |-> "other", length |-> 0] } \cup
  { [type |-> "array", length |-> n] : n \in 0..MaxOptions }

\* req.body.correctAnswer: undefined, a value v with Number(v) an integer, or
\* one with Number(v) no integer
AnswerBodies ==
  { [type |-> "undefined", value |-> 0], [type |-> "other", value |-> 0] } \cup
  { [type |-> "integer", value |-> i] : i \in -1..MaxOptions }

\* validateQuestionPayload returns null
validateQuestionPayload(text, options, correctAnswer) ==
  /\ text
  /\ options.type = "array" /\ options.length >= 2
  /\ correctAnswer.type = "integer"
  /\ correctAnswer.value >= 0 /\ correctAnswer.value < options.length

\* the PUT routes after qRef.get(): the status of an early return, or 0 and
\* the `updates` object
PutOutcome(doc, options, correctAnswer) ==
  IF doc = <<>> THEN [status |-> 404, updates |-> NoUpdates]
  ELSE IF options.type \notin {"undefined", "array"}
          \/ (options.type = "array" /\ options.length < 2)
       THEN [status |-> 400, updates |-> NoUpdates]
  ELSE LET opts == IF options.type = "array" THEN <<options.length>> ELSE <<>>
           current == IF opts # <<>> THEN opts[1] ELSE doc[1].options
       IN IF correctAnswer.type = "undefined"
          THEN [status |-> 0, updates |-> [options |-> opts, correctAnswer |-> <<>>]]
          ELSE IF correctAnswer.type # "integer"
                  \/ correctAnswer.value < 0 \/ correctAnswer.value >= current
               THEN [status |-> 400, updates |-> NoUpdates]
               ELSE [status |-> 0,
                     updates |-> [options |-> opts,
                                  correctAnswer |-> <<correctAnswer.value>>]]

\* qRef.update(updates): only the fields of `updates` are written
UpdatedDoc(doc, updates) ==
  << [ options |-> IF updates.options # <<>> THEN updates.options[1] ELSE doc[1].options,
       correctAnswer |-> IF updates.correctAnswer # <<>> THEN updates.correctAnswer[1]
                         ELSE doc[1].correctAnswer ] >>

\* POST /exams/:examId/questions and POST /exams/:examId/questions/upload
AddQuestion ==
  /\ questionDoc = <<>>
  /\ \E text \in BOOLEAN, options \in OptionsBodies, correctAnswer \in AnswerBodies :
       /\ validateQuestionPayload(text, options, correctAnswer)
       /\ questionDoc' = << [options |-> options.length,
                             correctAnswer |-> correctAnswer.value] >>
  /\ UNCHANGED <<putPc, putUpdates, putStatus>>

PostQuestion ==
  /\ AddQuestion
  /\ UNCHANGED <<handler, pickCall, targetCall, trimCall, buildCall, noteRoutes,
                 assemblies,
                 requestRoutes>>

PostQuestionUpload ==
  /\ AddQuestion
  /\ UNCHANGED <<handler, pickCall, targetCall, trimCall, buildCall, noteRoutes,
                 assemblies,
                 requestRoutes>>

\* a PUT route up to its await qRef.update(updates)
PutBuildUpdates(h) ==
  /\ putPc[h] = "idle"
  /\ \E options \in OptionsBodies, correctAnswer \in AnswerBodies :
       LET o == PutOutcome(questionDoc, options, correctAnswer) IN
       /\ putUpdates' = [putUpdates EXCEPT ![h] = o.updates]
       /\ putStatus' = [putStatus EXCEPT ![h] = o.status]
       /\ putPc' = [putPc EXCEPT ![h] = IF o.status = 0 THEN "updating" ELSE "done"]
  /\ UNCHANGED questionDoc

PutQuestionGet(h) ==
  /\ PutBuildUpdates(h)
  /\ UNCHANGED <<handler, pickCall, targetCall, trimCall, buildCall, noteRoutes,
                 assemblies,
                 requestRoutes>>

PutQuestionUploadGet(h) ==
  /\ PutBuildUpdates(h)
  /\ UNCHANGED <<handler, pickCall, targetCall, trimCall, buildCall, noteRoutes,
                 assemblies,
                 requestRoutes>>

\* qRef.update(updates) and the response
PutQuestionUpdate(h) ==
  /\ putPc[h] = "updating"
  /\ questionDoc' = UpdatedDoc(questionDoc, putUpdates[h])
  /\ putPc' = [putPc EXCEPT ![h] = "done"]
  /\ putStatus' = [putStatus EXCEPT ![h] = 200]
  /\ UNCHANGED putUpdates
  /\ UNCHANGED <<handler, pickCall, targetCall, trimCall, buildCall, noteRoutes,
                 assemblies,
                 requestRoutes>>

\* the handler has answered; the next PUT request may arrive
PutNextRequest(h) ==
  /\ putPc[h] = "done"
  /\ putPc' = [putPc EXCEPT ![h] = "idle"]
  /\ putUpdates' = [putUpdates EXCEPT ![h] = NoUpdates]
  /\ putStatus' = [putStatus EXCEPT ![h] = 0]
  /\ UNCHANGED questionDoc
  /\ UNCHANGED <<handler, pickCall, targetCall, trimCall, buildCall, noteRoutes,
                 assemblies,
                 requestRoutes>>

InitQuestions ==
  /\ db = <<>>
  /\ HandlerIdle
  /\ PickCallIdle
  /\ TargetCallIdle
  /\ TrimCallIdle
  /\ BuildCallIdle
  /\ QuestionRoutesIdle
  /\ NoteRoutesIdle
  /\ AssembliesIdle
  /\ RequestRoutesIdle

NextQuestions ==
  \/ PostQuestion
  \/ PostQuestionUpload
  \/ \E h \in PutHandlers :
       \/ PutQuestionGet(h)
       \/ PutQuestionUploadGet(h)
       \/ PutQuestionUpdate(h)
       \/ PutNextRequest(h)

SpecQuestions == InitQuestions /\ [][NextQuestions]_vars

\* -------------------------------------------------------- the note routes
\* POST /api/upload: one batch writes the note under a fresh id and, if
\* public, its mirror
UploadNote ==
  /\ noteCount < MaxNotes
  /\ \E isPublic \in BOOLEAN :
       LET n == noteCount + 1 IN
       /\ notes' = [notes EXCEPT ![n] = << [isPublic |-> isPublic] >>]
       /\ publicNotes' = IF isPublic THEN publicNotes \cup {n} ELSE publicNotes
  /\ noteCount' = noteCount + 1
  /\ UNCHANGED <<patchPc, patchReq, patchPrev, deletePc, deleteId>>
  /\ UNCHANGED <<handler, pickCall, targetCall, trimCall, buildCall, questionRoutes,
                 assemblies,
                 requestRoutes>>

\* PATCH /api/notes/:id up to its await batch.commit()
PatchNoteGet(h) ==
  /\ patchPc[h] = "idle"
  /\ \E n \in NoteIds, isPublic \in {<<>>, <<TRUE>>, <<FALSE>>} :
       /\ patchReq' = [patchReq EXCEPT ![h] = [id |-> n, isPublic |-> isPublic]]
       /\ IF notes[n] = <<>>
          THEN /\ patchPc' = [patchPc EXCEPT ![h] = "done"]
               /\ UNCHANGED patchPrev
          ELSE /\ patchPc' = [patchPc EXCEPT ![h] = "committing"]
               /\ patchPrev' = [patchPrev EXCEPT ![h] = notes[n][1]]
  /\ UNCHANGED <<notes, noteCount, publicNotes, deletePc, deleteId>>
  /\ UNCHANGED <<handler, pickCall, targetCall, trimCall, buildCall, questionRoutes,
                 assemblies,
                 requestRoutes>>

\* typeof isPublic === "boolean" ? isPublic : prev.isPublic
NewIsPublic(prev, isPublic) == IF isPublic # <<>> THEN isPublic[1] ELSE prev.isPublic

\* the mirror after the batch of a PATCH, from the snapshot prev it read
PatchedMirror(mirror, n, prev, isPublic) ==
  IF NewIsPublic(prev, isPublic) /\ ~prev.isPublic THEN mirror \cup {n}
  ELSE IF ~NewIsPublic(prev, isPublic) /\ prev.isPublic THEN mirror \ {n}
  ELSE mirror

\* the batch of a PATCH fails as a whole when it updates a missing document
PatchBatchFails(n, prev, isPublic) ==
  \/ notes[n] = <<>>
  \/ NewIsPublic(prev, isPublic) /\ prev.isPublic /\ n \notin publicNotes

\* batch.commit() of a PATCH and the response
PatchNoteCommit(h) ==
  /\ patchPc[h] = "committing"
  /\ LET n == patchReq[h].id
         isPublic == patchReq[h].isPublic
     IN IF PatchBatchFails(n, patchPrev[h], isPublic)
        THEN UNCHANGED <<notes, publicNotes>>
        ELSE /\ notes' = [notes EXCEPT ![n] =
                   IF isPublic # <<>> THEN << [isPublic |-> isPublic[1]] >> ELSE @]
             /\ publicNotes' = PatchedMirror(publicNotes, n, patchPrev[h], isPublic)
  /\ patchPc' = [patchPc EXCEPT ![h] = "done"]
  /\ UNCHANGED <<noteCount, patchReq, patchPrev, deletePc, deleteId>>
  /\ UNCHANGED <<handler, pickCall, targetCall, trimCall, buildCall, questionRoutes,
                 assemblies,
                 requestRoutes>>

\* the handler has answered; the next PATCH request may arrive
PatchNextRequest(h) ==
  /\ patchPc[h] = "done"
  /\ patchPc' = [patchPc EXCEPT ![h] = "idle"]
  /\ patchReq' = [patchReq EXCEPT ![h] = NoPatch]
  /\ patchPrev' = [patchPrev EXCEPT ![h] = NoPrev]
  /\ UNCHANGED <<notes, noteCount, publicNotes, deletePc, deleteId>>
  /\ UNCHANGED <<handler, pickCall, targetCall, trimCall, buildCall, questionRoutes,
                 assemblies,
                 requestRoutes>>

\* DELETE /api/notes/:id up to its await batch.commit()
DeleteNoteGet ==
  /\ deletePc = "idle"
  /\ \E n \in NoteIds :
       /\ deleteId' = n
       /\ deletePc' = IF notes[n] = <<>> THEN "done" ELSE "committing"
  /\ UNCHANGED <<notes, noteCount, publicNotes, patchPc, patchReq, patchPrev>>
  /\ UNCHANGED <<handler, pickCall, targetCall, trimCall, buildCall, questionRoutes,
                 assemblies,
                 requestRoutes>>

\* batch.commit() of the DELETE: the note and its mirror are deleted
DeleteNoteCommit ==
  /\ deletePc = "committing"
  /\ notes' = [notes EXCEPT ![deleteId] = <<>>]
  /\ publicNotes' = publicNotes \ {deleteId}
  /\ deletePc' = "done"
  /\ UNCHANGED <<noteCount, patchPc, patchReq, patchPrev, deleteId>>
  /\ UNCHANGED <<handler, pickCall, targetCall, trimCall, buildCall, questionRoutes,
                 assemblies,
                 requestRoutes>>

\* the handler has answered; the next DELETE request may arrive
DeleteNextRequest ==
  /\ deletePc = "done"
  /\ deletePc' = "idle"
  /\ deleteId' = 0
  /\ UNCHANGED <<notes, noteCount, publicNotes, patchPc, patchReq, patchPrev>>
  /\ UNCHANGED <<handler, pickCall, targetCall, trimCall, buildCall, questionRoutes,
                 assemblies,
                 requestRoutes>>

InitNotes ==
  /\ db = <<>>
  /\ HandlerIdle
  /\ PickCallIdle
  /\ TargetCallIdle
  /\ TrimCallIdle
  /\ BuildCallIdle
  /\ QuestionRoutesIdle
  /\ NoteRoutesIdle
  /\ AssembliesIdle
  /\ RequestRoutesIdle

NextNotes ==
  \/ UploadNote
  \/ DeleteNoteGet
  \/ DeleteNoteCommit
  \/ DeleteNextRequest
  \/ \E h \in PatchHandlers :
       \/ PatchNoteGet(h)
       \/ PatchNoteCommit(h)
       \/ PatchNextRequest(h)

SpecNotes == InitNotes /\ [][NextNotes]_vars

\* ------------------------- GET /exams/assembled over questions with images
\* A string is the sequence of its pieces; " " is a run of white space.
\* An image is <<>> (null or missing) or <<string>>.
ImageQuestions ==
  { [setId |-> "", setOrder |-> <<>>, image |-> << <<"/", "uploads", "/", "a.png">> >>],
    [setId |-> "a", setOrder |-> <<>>, image |-> << <<" ", "b.png">> >>],
    [setId |-> "a", setOrder |-> <<1>>, image |-> << <<"HTTPS://", "cdn", "/", "c.png">> >>],
    [setId |-> "", setOrder |-> <<>>, image |-> << <<" ">> >>] }

ImageExams(n) == [questionPercentage : {<<100>>}, questions : [1..n -> ImageQuestions]]

\* one or two exams holding at most MaxImageQuestions questions in all
ImageStores ==
  UNION { { <<e>> : e \in ImageExams(n) } : n \in 0..MaxImageQuestions } \cup
  UNION { { <<e1, e2>> : e1 \in ImageExams(n1), e2 \in ImageExams(n2) } :
            <<n1, n2>> \in { nn \in (0..MaxImageQuestions) \X (0..MaxImageQuestions) :
                              nn[1] + nn[2] <= MaxImageQuestions } }

AssemblyQueries ==
  [base : {<<>>}, max : {<<>>}, absoluteImages : {<<>>, <<"TRUE">>, <<"false">>}]

\* `${req.protocol}://${req.get("host")}`
RequestOrigin == <<"http://", "host">>

RECURSIVE TrimStart(_)
TrimStart(s) == IF s # <<>> /\ s[1] = " " THEN TrimStart(Tail(s)) ELSE s

RECURSIVE TrimEnd(_)
TrimEnd(s) ==
  IF s # <<>> /\ s[Len(s)] = " " THEN TrimEnd(SubSeq(s, 1, Len(s) - 1)) ELSE s

Trim(s) == TrimEnd(TrimStart(s))

\* /^https?:\/\//i
IsHttp(src) == src # <<>> /\ src[1] \in {"http://", "https://", "HTTP://", "HTTPS://"}

StartsWithUploads(src) == Len(src) >= 2 /\ src[1] = "/" /\ src[2] = "uploads"

\* src.replace(/^\/?/, "")
DropLeadingSlash(src) == IF src # <<>> /\ src[1] = "/" THEN Tail(src) ELSE src

toAbsoluteImageUrl(image) ==
  IF image = <<>> \/ Trim(image[1]) = <<>> THEN <<>>
  ELSE LET src == Trim(image[1]) IN
       IF IsHttp(src) THEN <<src>>
       ELSE IF StartsWithUploads(src) THEN <<RequestOrigin \o src>>
       ELSE <<RequestOrigin \o <<"/">> \o DropLeadingSlash(src)>>

ToLowerCase(s) == IF s \in {"TRUE", "True"} THEN "true" ELSE s

\* String(req.query.absoluteImages ?? "true").toLowerCase() === "true"
AbsoluteImages(q) == ToLowerCase(IF q = <<>> THEN "true" ELSE q[1]) = "true"

\* finalQuestions.map: json is q itself, so q.image is assigned in place
Normalized(qs, absoluteImages) ==
  [ i \in DOMAIN qs |->
      IF absoluteImages THEN [qs[i] EXCEPT !.image = toAbsoluteImageUrl(qs[i].image)]
      ELSE qs[i] ]

\* the handler's exam objects once the map has assigned the images of the
\* questions it returns
AfterNormalize(es, normalized) ==
  [ e \in DOMAIN es |->
      [ es[e] EXCEPT !.questions =
          [ j \in DOMAIN es[e].questions |->
              LET q == es[e].questions[j]
                  same == { i \in DOMAIN normalized : normalized[i].id = q.id }
              IN IF same = {} THEN q ELSE normalized[CHOOSE i \in same : TRUE] ] ] ]

\* the store if the images of the handler's objects were saved to their
\* question documents
WrittenBack(d, es) ==
  [ e \in DOMAIN d |->
      [ d[e] EXCEPT !.questions =
          [ j \in DOMAIN d[e].questions |->
              LET same == { x \in DOMAIN es : es[x].id = e }
              IN IF same = {} THEN d[e].questions[j]
                 ELSE [ d[e].questions[j] EXCEPT
                          !.image = es[CHOOSE x \in same : TRUE].questions[j].image ] ] ] ]

AssembledRequest(h) ==
  /\ asmPc[h] = "idle"
  /\ \E q \in AssemblyQueries : asmQuery' = [asmQuery EXCEPT ![h] = q]
  /\ asmPc' = [asmPc EXCEPT ![h] = "fetching"]
  /\ UNCHANGED <<asmExams, asmResponse, asmServed>>
  /\ UNCHANGED <<handler, pickCall, targetCall, trimCall, buildCall, questionRoutes,
                 noteRoutes,
                 requestRoutes>>

\* the outcomes of the handler from the resolved fetch to res.json
AssembledOutcomes(h, es) ==
  LET b == PositiveOr(asmQuery[h].base, DefaultBase)
      m == PositiveOr(asmQuery[h].max, DefaultMax)
  IN UNION { { LET t == TrimWalk(pool, m, <<>>, 0)
                   normalized == Normalized(t.finalQuestions,
                                            AbsoluteImages(asmQuery[h].absoluteImages))
               IN [ exams |-> AfterNormalize(es, normalized),
                    response |-> [ status |-> 200, base |-> b, max |-> m,
                                   count |-> Len(normalized),
                                   questions |-> normalized ] ] :
               pool \in shuffle(Concat([ i \in 1..Len(ps) |-> ps[i].chosenBlocks ])) } :
             ps \in PickOutcomes(es, b) }

\* variant: the handler saves the images it normalized
AssembledRespondSaving(h) ==
  /\ asmPc[h] = "fetching"
  /\ \E f \in FetchFailures(db) :
       /\ ~FetchRejects(f)
       /\ \E o \in AssembledOutcomes(h, FetchedExams(f)) :
            /\ asmExams' = [asmExams EXCEPT ![h] = o.exams]
            /\ asmResponse' = [asmResponse EXCEPT ![h] = o.response]
            /\ db' = WrittenBack(db, o.exams)
  /\ asmPc' = [asmPc EXCEPT ![h] = "responded"]
  /\ UNCHANGED <<asmQuery, asmServed>>
  /\ UNCHANGED <<pc, query, base, max, exams, picks, allBlocks, finalQuestions,
                 used, trimFallback, response, fetchError>>
  /\ UNCHANGED <<pickCall, targetCall, trimCall, buildCall, questionRoutes, noteRoutes,
                 requestRoutes>>

\* the fetch resolves: the rest of the handler runs to completion; it calls
\* no set, update, add, delete or commit
AssembledRespond(h) ==
  /\ asmPc[h] = "fetching"
  /\ \E f \in FetchFailures(db) :
       /\ ~FetchRejects(f)
       /\ \E o \in AssembledOutcomes(h, FetchedExams(f)) :
            /\ asmExams' = [asmExams EXCEPT ![h] = o.exams]
            /\ asmResponse' = [asmResponse EXCEPT ![h] = o.response]
            /\ db' = db
  /\ asmPc' = [asmPc EXCEPT ![h] = "responded"]
  /\ UNCHANGED <<asmQuery, asmServed>>
  /\ UNCHANGED <<pc, query, base, max, exams, picks, allBlocks, finalQuestions,
                 used, trimFallback, response, fetchError>>
  /\ UNCHANGED <<pickCall, targetCall, trimCall, buildCall, questionRoutes, noteRoutes,
                 requestRoutes>>

AssembledFetchFail(h) ==
  /\ asmPc[h] = "fetching"
  /\ { f \in FetchFailures(db) : FetchRejects(f) } # {}
  /\ asmResponse' = [asmResponse EXCEPT
                       ![h] = [status |-> 500, message |-> "Server error assembling exam"]]
  /\ asmPc' = [asmPc EXCEPT ![h] = "caught"]
  /\ UNCHANGED <<asmQuery, asmExams, asmServed>>
  /\ UNCHANGED <<handler, pickCall, targetCall, trimCall, buildCall, questionRoutes,
                 noteRoutes,
                 requestRoutes>>

\* the request is answered and its objects are dropped; the next one arrives
AssembledNextRequest(h) ==
  /\ asmPc[h] \in {"responded", "caught"}
  /\ asmServed < MaxServed
  /\ asmServed' = asmServed + 1
  /\ asmPc' = [asmPc EXCEPT ![h] = "idle"]
  /\ asmQuery' = [asmQuery EXCEPT ![h] = NoQuery]
  /\ asmExams' = [asmExams EXCEPT ![h] = <<>>]
  /\ asmResponse' = [asmResponse EXCEPT ![h] = NoResponse]
  /\ UNCHANGED <<handler, pickCall, targetCall, trimCall, buildCall, questionRoutes,
                 noteRoutes,
                 requestRoutes>>

InitAssembled ==
  /\ db \in ImageStores
  /\ HandlerIdle
  /\ PickCallIdle
  /\ TargetCallIdle
  /\ TrimCallIdle
  /\ BuildCallIdle
  /\ QuestionRoutesIdle
  /\ NoteRoutesIdle
  /\ AssembliesIdle
  /\ RequestRoutesIdle

NextAssembled ==
  \E h \in AssemblyHandlers :
    \/ AssembledRequest(h)
    \/ AssembledRespond(h)
    \/ AssembledFetchFail(h)
    \/ AssembledNextRequest(h)

SpecAssembled == InitAssembled /\ [][NextAssembled]_vars

\* ------------------------------------------- the validation request routes
OtherGroups == <<handler, pickCall, targetCall, trimCall, buildCall, questionRoutes,
                 noteRoutes, assemblies>>

\* a user document as the other routes leave it: no request sent
NewUser == [request_sent |-> FALSE, is_validated |-> FALSE]

\* POST /api/requests up to "const batch": 404, 400, or on to the batch
SubmitGet(h) ==
  /\ submitPc[h] = "idle"
  /\ \E uid \in UserIds :
       /\ submitUid' = [submitUid EXCEPT ![h] = uid]
       /\ IF users[uid] = <<>>
          THEN /\ submitStatus' = [submitStatus EXCEPT ![h] = 404]
               /\ submitPc' = [submitPc EXCEPT ![h] = "done"]
          ELSE IF users[uid][1].request_sent
          THEN /\ submitStatus' = [submitStatus EXCEPT ![h] = 400]
               /\ submitPc' = [submitPc EXCEPT ![h] = "done"]
          ELSE /\ submitStatus' = submitStatus
               /\ submitPc' = [submitPc EXCEPT ![h] = "committing"]
  /\ UNCHANGED <<users, requests, requestCount, decidePc, decideReq, decideStatus>>
  /\ UNCHANGED OtherGroups

\* batch.set(reqRef, ...), batch.update(userRef, { request_sent: true }),
\* commit, answer 201; the update of a missing user fails the whole batch
SubmitCommit(h) ==
  /\ submitPc[h] = "committing"
  /\ requestCount < MaxRequests
  /\ LET uid == submitUid[h]
         id == requestCount + 1
     IN IF users[uid] = <<>>
        THEN /\ submitStatus' = [submitStatus EXCEPT ![h] = 500]
             /\ UNCHANGED <<users, requests>>
        ELSE /\ requests' = [requests EXCEPT ![id] = <<[uid |-> uid]>>]
             /\ users' = [users EXCEPT ![uid] = <<[users[uid][1] EXCEPT !.request_sent = TRUE]>>]
             /\ submitStatus' = [submitStatus EXCEPT ![h] = 201]
  /\ requestCount' = requestCount + 1
  /\ submitPc' = [submitPc EXCEPT ![h] = "done"]
  /\ UNCHANGED <<submitUid, decidePc, decideReq, decideStatus>>
  /\ UNCHANGED OtherGroups

SubmitNextRequest(h) ==
  /\ submitPc[h] = "done"
  /\ submitPc' = [submitPc EXCEPT ![h] = "idle"]
  /\ submitUid' = [submitUid EXCEPT ![h] = 0]
  /\ submitStatus' = [submitStatus EXCEPT ![h] = 0]
  /\ UNCHANGED <<users, requests, requestCount, decidePc, decideReq, decideStatus>>
  /\ UNCHANGED OtherGroups

\* PUT /api/requests/approve/:id and /reject/:id up to "const batch"
DecideGet ==
  /\ decidePc = "idle"
  /\ \E route \in {"approve", "reject"}, id \in RequestIds :
       IF requests[id] = <<>>
       THEN /\ decideReq' = [route |-> route, id |-> id, uid |-> 0]
            /\ decideStatus' = 404
            /\ decidePc' = "done"
       ELSE /\ decideReq' = [route |-> route, id |-> id, uid |-> requests[id][1].uid]
            /\ decideStatus' = 0
            /\ decidePc' = "committing"
  /\ UNCHANGED <<users, requests, requestCount, submitPc, submitUid, submitStatus>>
  /\ UNCHANGED OtherGroups

\* the user document after batch.update of approve or reject
Decided(user, route) ==
  IF route = "approve"
  THEN [user EXCEPT !.is_validated = TRUE, !.request_sent = FALSE]
  ELSE [user EXCEPT !.request_sent = FALSE]

\* batch.update(userRef, ...), batch.delete(reqRef), commit
DecideCommit ==
  /\ decidePc = "committing"
  /\ IF users[decideReq.uid] = <<>>
     THEN /\ decideStatus' = 500
          /\ UNCHANGED <<users, requests>>
     ELSE /\ users' = [users EXCEPT
                         ![decideReq.uid] = <<Decided(users[decideReq.uid][1], decideReq.route)>>]
          /\ requests' = [requests EXCEPT ![decideReq.id] = <<>>]
          /\ decideStatus' = 200
  /\ decidePc' = "done"
  /\ UNCHANGED <<requestCount, decideReq, submitPc, submitUid, submitStatus>>
  /\ UNCHANGED OtherGroups

DecideNextRequest ==
  /\ decidePc = "done"
  /\ decidePc' = "idle"
  /\ decideReq' = NoDecision
  /\ decideStatus' = 0
  /\ UNCHANGED <<users, requests, requestCount, submitPc, submitUid, submitStatus>>
  /\ UNCHANGED OtherGroups

InitRequests ==
  /\ db = <<>>
  /\ HandlerIdle
  /\ PickCallIdle
  /\ TargetCallIdle
  /\ TrimCallIdle
  /\ BuildCallIdle
  /\ QuestionRoutesIdle
  /\ NoteRoutesIdle
  /\ AssembliesIdle
  /\ users \in [UserIds -> {<<>>, <<NewUser>>}]
  /\ requests = [r \in RequestIds |-> <<>>]
  /\ requestCount = 0
  /\ submitPc = [h \in SubmitHandlers |-> "idle"]
  /\ submitUid = [h \in SubmitHandlers |-> 0]
  /\ submitStatus = [h \in SubmitHandlers |-> 0]
  /\ decidePc = "idle"
  /\ decideReq = NoDecision
  /\ decideStatus = 0

NextRequests ==
  \/ \E h \in SubmitHandlers :
       \/ SubmitGet(h)
       \/ SubmitCommit(h)
       \/ SubmitNextRequest(h)
  \/ DecideGet
  \/ DecideCommit
  \/ DecideNextRequest

SpecRequests == InitRequests /\ [][NextRequests]_vars

\* ------------------------------------------------------------ properties
Responded == pc = "responded"
Returned == Range(response.questions)
Weightless(p) == p \in {<<>>, <<0>>}

\* the questions of exam e that share the setId s
SetOf(e, s) == { q \in Range(e.questions) : q.setId = s }
SetIdsOf(e) == { q.setId : q \in Range(e.questions) } \ {""}

\* C1: the returned list holds either every question of an exam that shares
\* one setId or none of them, never a strict subset.
NoSplit ==
  Responded =>
    \A e \in Range(exams) : \A s \in SetIdsOf(e) :
      SetOf(e, s) \subseteq Returned \/ SetOf(e, s) \cap Returned = {}

\* a set of two or more questions was left out whole while others were returned
NoSplitWitness ==
  /\ Responded
  /\ Returned # {}
  /\ \E e \in Range(exams) : \E s \in SetIdsOf(e) :
       Cardinality(SetOf(e, s)) >= 2 /\ SetOf(e, s) \cap Returned = {}
       /\ \E i \in DOMAIN allBlocks : Range(allBlocks[i]) = SetOf(e, s)

\* C2: the number of returned questions is at most max, unless the global
\* fallback fired; then the result is exactly one block, larger than max.
GlobalCap ==
  Responded =>
    IF trimFallback
    THEN \E i \in DOMAIN allBlocks :
           response.questions = allBlocks[i] /\ Len(allBlocks[i]) > max
    ELSE Len(response.questions) <= max

\* the global fallback fired on a pool of several blocks
GlobalCapWitness ==
  Responded /\ trimFallback /\ Len(allBlocks) >= 2 /\ Len(response.questions) > max

\* C3: whenever more than max questions are returned, every block of the
\* merged pool is larger than max.
OverMaxOnlyIfNothingFits ==
  (Responded /\ Len(response.questions) > max) =>
    \A i \in DOMAIN allBlocks : Len(allBlocks[i]) > max

\* C4: for target > 0 the blocks pickBlocks selects hold at most target
\* questions, unless the fallback fired; then exactly one block is selected
\* and no block of the exam is smaller.
PerExamBudget ==
  (pkDone /\ pkTarget > 0) =>
    IF pkFallback
    THEN /\ Len(pkPicked) = 1
         /\ pkPicked[1] \in Range(pkBlocks)
         /\ \A b \in Range(pkBlocks) : Len(pkPicked[1]) <= Len(b)
    ELSE /\ Range(pkPicked) \subseteq Range(pkBlocks)
         /\ SumSeq(Lengths(pkPicked)) <= pkTarget

\* the fallback fired on blocks of different sizes
PerExamBudgetWitness ==
  /\ pkDone /\ pkFallback /\ Len(pkPicked) = 1
  /\ \E b \in Range(pkBlocks) : Len(b) > Len(pkPicked[1])

\* C5: for target > 0 and at least one block, pickBlocks selects at least one
\* block, also when every block is larger than target; one block of 5 with
\* target 3 yields that block.
FallbackGuarantee ==
  (pkDone /\ pkTarget > 0 /\ pkBlocks # <<>>) =>
    /\ pkPicked # <<>>
    /\ (pkBlocks = BlocksOfSizes(<<5>>) /\ pkTarget = 3) => pkPicked = pkBlocks

\* one block of 5 with target 3 was selected
FallbackGuaranteeWitness ==
  pkDone /\ pkBlocks = BlocksOfSizes(<<5>>) /\ pkTarget = 3 /\ pkPicked = pkBlocks

\* C6: for a positive integer base and a weight w >= 0 the target is the
\* non-negative integer nearest to base*w/100, ties rounded up
\* (base 25: 40 gives 10, 33 gives 8, 10 gives 3, 0 gives 0).
QuotaRounding ==
  (tcTarget # <<>> /\ tcPercentage # <<>>) =>
    LET t == tcTarget[1]
        x == tcBase * tcPercentage[1]
    IN /\ t \in Nat
       /\ 100 * t - 50 <= x
       /\ x < 100 * t + 50
       /\ (tcBase = 25 /\ tcPercentage[1] = 40) => t = 10
       /\ (tcBase = 25 /\ tcPercentage[1] = 33) => t = 8
       /\ (tcBase = 25 /\ tcPercentage[1] = 10) => t = 3
       /\ (tcBase = 25 /\ tcPercentage[1] = 0) => t = 0

\* the tie 2.5 was rounded up to 3
QuotaRoundingWitness ==
  tcBase = 25 /\ tcPercentage = <<10>> /\ tcTarget = <<3>>

\* C7: an exam whose weight is 0 or missing, or whose target is <= 0, gets
\* an empty selection and none of its questions is returned.
ZeroWeightExcluded ==
  Responded =>
    \A e \in DOMAIN exams :
      (Weightless(exams[e].questionPercentage) \/ picks[e].targetCount <= 0) =>
        /\ picks[e].chosenBlocks = <<>>
        /\ Range(exams[e].questions) \cap Returned = {}

\* an exam of weight 0 or missing holds questions, and another exam's
\* questions were returned
ZeroWeightExcludedWitness ==
  /\ Responded
  /\ \E e1, e2 \in DOMAIN exams :
       /\ Weightless(exams[e1].questionPercentage)
       /\ exams[e1].questions # <<>>
       /\ Range(exams[e2].questions) \cap Returned # {}

\* the position of a returned question
PositionOf(q) == CHOOSE i \in DOMAIN response.questions : response.questions[i] = q

\* q1 comes before q2 in their set: smaller setOrder (missing counts as 0),
\* or the same setOrder and stored earlier
SetOrderOrZero(q) == IF q.setOrder = <<>> THEN 0 ELSE q.setOrder[1]

SetBefore(q1, q2) ==
  \/ SetOrderOrZero(q1) < SetOrderOrZero(q2)
  \/ SetOrderOrZero(q1) = SetOrderOrZero(q2) /\ q1.id[2] < q2.id[2]

\* C8: count is the number of questions returned, and the questions of each
\* returned set are contiguous and in the set's sorted order.
OutputShape ==
  Responded =>
    /\ response.count = Len(response.questions)
    /\ \A e \in Range(exams) : \A s \in SetIdsOf(e) :
         SetOf(e, s) \subseteq Returned =>
           \A q1, q2 \in SetOf(e, s) :
             /\ PositionOf(q1) - PositionOf(q2) < Cardinality(SetOf(e, s))
             /\ SetBefore(q1, q2) => PositionOf(q1) < PositionOf(q2)

\* a returned set whose sorted order differs from its stored order, next to
\* another returned block
OutputShapeWitness ==
  /\ Responded
  /\ \E e \in Range(exams) : \E s \in SetIdsOf(e) :
       /\ SetOf(e, s) \subseteq Returned
       /\ Len(response.questions) > Cardinality(SetOf(e, s))
       /\ \E q1, q2 \in SetOf(e, s) : q1.id[2] > q2.id[2] /\ SetBefore(q1, q2)

\* zero exams, no questions at all, or no exam with a weight
Degenerate ==
  \/ db = <<>>
  \/ \A e \in DOMAIN db : db[e].questions = <<>>
  \/ \A e \in DOMAIN db : Weightless(db[e].questionPercentage)

\* C9: on degenerate inputs the handler answers 200 with count 0, no
\* questions, and the effective base and max.
DegenerateInputs ==
  (Responded /\ Degenerate) =>
    /\ response.status = 200
    /\ response.count = 0
    /\ response.questions = <<>>
    /\ response.base = base
    /\ response.max = max

\* exams hold questions but none has a weight
DegenerateInputsWitness ==
  /\ Responded
  /\ \E e \in DOMAIN db : db[e].questions # <<>>
  /\ \A e \in DOMAIN db : Weightless(db[e].questionPercentage)
  /\ response.count = 0

Missing(q) == q = <<>>

\* C10: a missing or non-positive base becomes 25 and max 100, a positive
\* one is kept; the request is answered 200, and the response echoes the
\* base and max the targets and the cap were computed with.
ParameterDefaulting ==
  /\ pc # "idle" =>
       /\ (Missing(query.base) \/ query.base[1] <= 0) => base = 25
       /\ (~Missing(query.base) /\ query.base[1] > 0) => base = query.base[1]
       /\ (Missing(query.max) \/ query.max[1] <= 0) => max = 100
       /\ (~Missing(query.max) /\ query.max[1] > 0) => max = query.max[1]
  /\ Responded =>
       /\ response.status = 200
       /\ response.base = base
       /\ response.max = max
       /\ \A e \in DOMAIN exams :
            picks[e].targetCount = targetCount(response.base, exams[e])
       /\ (~trimFallback) => response.count <= response.max

\* a request with base=0 and max=-1 was answered with 25 and 100
ParameterDefaultingWitness ==
  /\ Responded
  /\ query = [base |-> <<0>>, max |-> <<-1>>]
  /\ response.base = 25 /\ response.max = 100

\* C11: if reading the exam list or the questions of any exam fails, the
\* request ends in the catch block with status 500 and no question list.
UpstreamFailure ==
  fetchError # "none" =>
    /\ pc = "caught"
    /\ response.status = 500
    /\ "questions" \notin DOMAIN response
    /\ exams = <<>> /\ finalQuestions = <<>>

\* the questions of one exam could not be read while another exam holds
\* questions
UpstreamFailureWitness ==
  /\ pc = "caught"
  /\ fetchError = "questions"
  /\ Len(db) >= 2
  /\ \E e \in DOMAIN db : db[e].questions # <<>>
  /\ response.status = 500

\* the smaller of two numbers
Min(a, b) == IF a <= b THEN a ELSE b

Ungrouped(e) == \A q \in Range(e.questions) : q.setId = ""

\* C13: an exam of n questions without setId yields n singleton blocks, and
\* for target > 0 exactly min(target, n) distinct questions of it are selected.
UngroupedExam ==
  Responded =>
    \A e \in DOMAIN exams :
      Ungrouped(exams[e]) =>
        LET n == Len(exams[e].questions)
            chosen == picks[e].chosenBlocks
        IN /\ Len(picks[e].blocks) = n
           /\ \A b \in Range(picks[e].blocks) : Len(b) = 1
           /\ { b[1] : b \in Range(picks[e].blocks) } = Range(exams[e].questions)
           /\ picks[e].targetCount > 0 =>
                /\ Len(chosen) = Min(picks[e].targetCount, n)
                /\ \A b \in Range(chosen) : Len(b) = 1 /\ b[1] \in Range(exams[e].questions)
                /\ Cardinality({ b[1].id : b \in Range(chosen) }) = Min(picks[e].targetCount, n)

\* one of three ungrouped questions was selected for target 1
UngroupedExamWitness ==
  /\ Responded
  /\ \E e \in DOMAIN exams :
       /\ Ungrouped(exams[e])
       /\ Len(exams[e].questions) = 3
       /\ picks[e].targetCount = 1
       /\ Len(picks[e].chosenBlocks) = 1

\* C19: every question appears at most once in the returned list, also when
\* the per-exam or the global fallback fired.
NoDuplicates ==
  Responded =>
    \A i, j \in DOMAIN response.questions :
      response.questions[i].id = response.questions[j].id => i = j

\* both fallbacks fired and several questions were returned
NoDuplicatesWitness ==
  /\ Responded
  /\ trimFallback
  /\ \E e \in DOMAIN picks : picks[e].fallback
  /\ Len(response.questions) >= 2

\* the blocks that hold the question q
BlocksHolding(q) == { i \in DOMAIN bbBlocks : q \in Range(bbBlocks[i]) }

\* C14: buildBlocksForExam partitions the questions: each lies in exactly one
\* block; each setId gives one block of all its questions, ascending by
\* setOrder (missing counts as 0), equal orders in stored order; each
\* question without setId is a singleton block.
BlocksPartition ==
  bbDone =>
    /\ \A q \in Range(bbExam.questions) : Cardinality(BlocksHolding(q)) = 1
    /\ SumSeq(Lengths(bbBlocks)) = Len(bbExam.questions)
    /\ \A s \in SetIdsOf(bbExam) :
         \E i \in DOMAIN bbBlocks :
           /\ Range(bbBlocks[i]) = SetOf(bbExam, s)
           /\ \A j, k \in DOMAIN bbBlocks[i] :
                j < k => SetBefore(bbBlocks[i][j], bbBlocks[i][k])
    /\ \A q \in Range(bbExam.questions) :
         q.setId = "" => \E i \in DOMAIN bbBlocks : bbBlocks[i] = <<q>>

\* two sets and an ungrouped question; one set was reordered by the sort and
\* one holds two questions of equal setOrder
BlocksPartitionWitness ==
  /\ bbDone
  /\ Cardinality(SetIdsOf(bbExam)) = 2
  /\ \E q \in Range(bbExam.questions) : q.setId = ""
  /\ \E i \in DOMAIN bbBlocks : \E j, k \in DOMAIN bbBlocks[i] :
       j < k /\ bbBlocks[i][j].id[2] > bbBlocks[i][k].id[2]
  /\ \E i \in DOMAIN bbBlocks : \E j, k \in DOMAIN bbBlocks[i] :
       j < k /\ SetOrderOrZero(bbBlocks[i][j]) = SetOrderOrZero(bbBlocks[i][k])

\* C15: after pickBlocks returns with selected total t, every block that was
\* not selected has t + size > target.
PickWalkComplete ==
  pkDone =>
    LET t == SumSeq(Lengths(pkPicked)) IN
    \A b \in Range(pkBlocks) \ Range(pkPicked) : t + Len(b) > pkTarget

\* a block was skipped and a later block of the pool was selected
PickWalkCompleteWitness ==
  /\ pkDone /\ ~pkFallback
  /\ \E i, j \in DOMAIN pkPool :
       i < j /\ pkPool[i] \notin Range(pkPicked) /\ pkPool[j] \in Range(pkPicked)

\* C16: in the result of the trim with count c, every block of the pool that
\* was left out has c + size > max.
TrimWalkComplete ==
  trDone =>
    LET c == Len(trFinal) IN
    \A i \in DOMAIN trPool :
      Range(trPool[i]) \cap Range(trFinal) = {} => c + Len(trPool[i]) > trMax

\* a block was skipped and a later block of the pool was accepted
TrimWalkCompleteWitness ==
  /\ trDone /\ ~trFallback
  /\ \E i, j \in DOMAIN trPool :
       /\ i < j
       /\ Range(trPool[i]) \cap Range(trFinal) = {}
       /\ Range(trPool[j]) \subseteq Range(trFinal)

\* C17: every stored question has 0 <= correctAnswer < number of options,
\* after any sequence of create and update requests.
CorrectAnswerInRange ==
  questionDoc # <<>> =>
    questionDoc[1].correctAnswer >= 0 /\ questionDoc[1].correctAnswer < questionDoc[1].options

\* C20: a mirror document with id n exists in public_notes exactly when
\* note n exists in notes with isPublic = true.
MirrorConsistent ==
  \A n \in NoteIds :
    n \in publicNotes <=> (notes[n] # <<>> /\ notes[n][1].isPublic)

\* the question document a materialized question was read from
StoredQuestion(q) == db[q.id[1]].questions[q.id[2]]

\* C18: assembly is read-only: no step of an assembly request, whether the
\* requests follow one another or overlap, changes the stored exams and
\* questions.
AssemblyReadOnly == [][db' = db]_vars

\* after an earlier request was answered, two overlapping requests have
\* answered: one rewrote the image of a question object it returns, the
\* other returns the stored images
AssemblyReadOnlyWitness ==
  /\ asmServed >= 1
  /\ \A h \in AssemblyHandlers : asmPc[h] = "responded"
  /\ \E i \in DOMAIN asmResponse[1].questions :
       asmResponse[1].questions[i].image # StoredQuestion(asmResponse[1].questions[i]).image
  /\ asmResponse[2].questions # <<>>
  /\ \A i \in DOMAIN asmResponse[2].questions :
       asmResponse[2].questions[i].image = StoredQuestion(asmResponse[2].questions[i]).image

\* the pending request documents of user u
PendingOf(u) == { r \in RequestIds : requests[r] # <<>> /\ requests[r][1].uid = u }

\* C21: each user has at most one pending request document, and the user's
\* request_sent flag is true exactly when such a document exists.
OnePendingRequest ==
  \A u \in UserIds :
    /\ Cardinality(PendingOf(u)) <= 1
    /\ users[u] # <<>> => (users[u][1].request_sent <=> PendingOf(u) # {})

====
